---- MODULE Spec2Model ----
(***************************************************************************)
(* A model of src/main.py: GalaxyGenerator (unique names, star systems     *)
(* with a cached distance map) and RouteCalculator.find_shortest_path      *)
(* (Dijkstra with a heap of (distance, name) tuples, a visited set and a   *)
(* backward walk over the predecessor table).                              *)
(*                                                                         *)
(* Strings are sequences of character codes, so that Python's string       *)
(* comparison (used by the heap for tuples of equal distance) and string   *)
(* concatenation (used to build names) are modelled by what they do.       *)
(* A dict is a function whose DOMAIN is its key set.                       *)
(***************************************************************************)
EXTENDS Integers, Sequences, FiniteSets, TLC

\* ------------------------------------------------------------------ bounds
\* Edge weights of the hand-built systems are at most MaxWeight.
MaxWeight == 1
\* The backward walk stops being followed after MaxWalk appended names.
MaxWalk == 5

\* --------------------------------------------------------------- constants
\* float('infinity'): larger than every sum of edge weights of the model.
Infinity == 1000000
\* Python's None; no name is the empty string here.
None == <<>>

VARIABLES
    used_names,     \* GalaxyGenerator.used_names
    systems,        \* GalaxyGenerator.systems: system name -> StarSystem
    tpc,            \* per thread: position in generate_unique_name
    tprefix,        \* per thread: its argument prefix
    tname,          \* per thread: its local name
    returned,       \* how many times each name was returned (history)
    gpc,            \* position in generate_star_system
    num_planets,    \* its argument
    system_name,    \* its local
    planets,        \* its local list
    generated,      \* the StarSystem the last call returned
    system,         \* RouteCalculator.system: [name, planets, distances]
    rpc,            \* position in find_shortest_path
    start_planet,   \* argument
    end_planet,     \* argument
    distances,      \* local dict: planet name -> tentative distance
    previous,       \* local dict: planet name -> predecessor name or None
    pq,             \* the heap, as the list of its (distance, name) entries
    visited,        \* local set
    path,           \* local list of the backward walk
    current,        \* local of the backward walk
    result,         \* what the last call returned or raised
    popped,         \* locals (current_distance, current_planet) of line 107
    pushes,         \* how many entries the call has put in the heap (history)
    first_pop,      \* per visited planet: the popped distance and its table
                    \* entries when it was marked visited (history)
    earlier,        \* what the caller kept of its call before this one
    default_planets,\* the default of num_planets, set when line 41 is run
    defaults_used,  \* the planet counts of the calls that gave none, in
                    \* the order of the calls (history)
    registered      \* the systems given to add_star_system so far (history)

rvars == <<system, rpc, start_planet, end_planet, distances, previous, pq,
           visited, path, current, result>>

gvars == <<used_names, systems, tpc, tprefix, tname, returned, gpc,
           num_planets, system_name, planets, generated>>

\* The locals and the history of find_shortest_path added to rvars.
lvars == <<popped, pushes, first_pop, earlier>>

\* The default of generate_star_system and the history of the generator.
dvars == <<default_planets, defaults_used, registered>>

vars == <<gvars, rvars, lvars, dvars>>

\* ------------------------------------------------------- strings and dicts
\* Python's str < str: lexicographic on code points, a proper prefix first.
RECURSIVE StrLess(_, _)
StrLess(a, b) ==
    IF b = <<>> THEN FALSE
    ELSE IF a = <<>> THEN TRUE
    ELSE IF Head(a) /= Head(b) THEN Head(a) < Head(b)
    ELSE StrLess(Tail(a), Tail(b))

\* Tuple order with the name left out of the comparison.
EntryLess_DistanceOnly(e, f) == e[1] < f[1]

\* Python's tuple < tuple for heap entries (distance, name).
EntryLess(e, f) ==
    \/ e[1] < f[1]
    \/ e[1] = f[1] /\ StrLess(e[2], f[2])

EmptyDict == [k \in {} |-> 0]

\* d[k] = v of a dict: inserts the key when it is not there.
DictSet(d, k, v) == [x \in DOMAIN d \cup {k} |-> IF x = k THEN v ELSE d[x]]

\* The list as it is, not turned round.
Reverse_Not(s) == s

\* path[::-1]
Reverse(s) == [i \in 1..Len(s) |-> s[Len(s) + 1 - i]]

\* The names of the planets of a system, in list order.
PlanetNames(sys) == [i \in 1..Len(sys.planets) |-> sys.planets[i].name]

NameSet(sys) == {sys.planets[i].name : i \in 1..Len(sys.planets)}

\* --------------------------------------------------------- GalaxyGenerator
\* One thread runs the sequential program; a second one exists for the
\* concurrent use of one generator.
Threads == {1, 2}

\* string.ascii_uppercase + string.digits (line 30), cut down to "A", "B"
\* and "0".
Alphabet == {65, 66, 48}

\* k of random.choices (line 30), cut down from 4.
SuffixLen == 1

\* "SYS" and "PLT" (lines 43 and 50).
SYS == <<83, 89, 83>>

PLT == <<80, 76, 84>>

Prefixes == {SYS, PLT}

\* ''.join(random.choices(...)): every string of SuffixLen characters.
Suffixes == [1..SuffixLen -> Alphabet]

\* line 30: prefix + '-' + suffix
MakeName(prefix, suffix) == prefix \o <<45>> \o suffix

\* The sample of the values random.uniform(-100, 100) gives a planet
\* (lines 51-54).
Coordinates == {<<0, 0>>, <<1, 1>>}

\* random.randint(3, 8) of line 41: the bounds of the default planet count.
DefaultLow == 3

DefaultHigh == 8

\* The number of planets a caller asks for is at most MaxPlanets.
MaxPlanets == 3

NoSystem == [name |-> None, planets |-> <<>>, distances |-> EmptyDict]

\* line 39, in hundredths: round(sqrt(d2), 2) * 100 for the integer d2. The
\* root of an integer is an integer or irrational, so no tie is rounded.
RoundedRoot(d2) ==
    CHOOSE n \in 0..(100 * d2) :
        /\ 4 * 10000 * d2 < (2 * n + 1) * (2 * n + 1)
        /\ n > 0 => (2 * n - 1) * (2 * n - 1) <= 4 * 10000 * d2

\* lines 35-39
calculate_distance(p1, p2) ==
    LET x1 == p1.coordinates[1]
        y1 == p1.coordinates[2]
        x2 == p2.coordinates[1]
        y2 == p2.coordinates[2]
    IN RoundedRoot((x2 - x1) * (x2 - x1) + (y2 - y1) * (y2 - y1))

\* Lines 62-63 without line 63: the pair is stored under one order only.
StorePair_OneWay(d, p1, p2) ==
    DictSet(d, <<p1.name, p2.name>>, calculate_distance(p1, p2))

\* lines 61-63
StorePair(d, p1, p2) ==
    LET distance == calculate_distance(p1, p2)
    IN DictSet(DictSet(d, <<p1.name, p2.name>>, distance),
               <<p2.name, p1.name>>, distance)

\* lines 59-63: the two nested loops from the pair (i, j) on, j > i.
RECURSIVE AllPairs(_, _, _, _)
AllPairs(pl, i, j, d) ==
    IF i > Len(pl) THEN d
    ELSE IF j > Len(pl) THEN AllPairs(pl, i + 1, i + 2, d)
    ELSE AllPairs(pl, i, j + 1, StorePair(d, pl[i], pl[j]))

GenIdle ==
    /\ used_names = {}
    /\ systems = EmptyDict
    /\ tpc = [t \in Threads |-> "idle"]
    /\ tprefix = [t \in Threads |-> None]
    /\ tname = [t \in Threads |-> None]
    /\ returned = EmptyDict
    /\ gpc = "idle"
    /\ num_planets = 0
    /\ system_name = None
    /\ planets = <<>>
    /\ generated = NoSystem
    /\ defaults_used = <<>>
    /\ registered = {}

\* ---------------------------------------------------- generate_unique_name
\* The test of line 31 that always succeeds.
NotUsed_Always(name) == TRUE

\* line 31
NotUsed(name) == name \notin used_names

\* Line 32 left out.
Insert_Nothing(names, name) == names

\* line 32
Insert(names, name) == names \cup {name}

\* The call, by thread t (line 27).
generate_unique_name(t, prefix) ==
    /\ tpc[t] = "idle"
    /\ gpc = "idle"
    /\ tpc' = [tpc EXCEPT ![t] = "line30"]
    /\ tprefix' = [tprefix EXCEPT ![t] = prefix]
    /\ UNCHANGED <<used_names, systems, tname, returned, gpc, num_planets,
                   system_name, planets, generated>>
    /\ UNCHANGED rvars
    /\ UNCHANGED lvars
    /\ UNCHANGED dvars

\* lines 30-31: a name is drawn that passes the test.
DrawFree(t) ==
    /\ tpc[t] = "line30"
    /\ \E suffix \in Suffixes :
         LET name == MakeName(tprefix[t], suffix)
         IN  /\ NotUsed(name)
             /\ tname' = [tname EXCEPT ![t] = name]
    /\ tpc' = [tpc EXCEPT ![t] = "line32"]
    /\ UNCHANGED <<used_names, systems, tprefix, returned, gpc, num_planets,
                   system_name, planets, generated>>
    /\ UNCHANGED rvars
    /\ UNCHANGED lvars
    /\ UNCHANGED dvars

\* lines 30-31, then line 29 again: the drawn name fails the test.
DrawTaken(t) ==
    /\ tpc[t] = "line30"
    /\ \E suffix \in Suffixes :
         LET name == MakeName(tprefix[t], suffix)
         IN  /\ ~NotUsed(name)
             /\ tname' = [tname EXCEPT ![t] = name]
    /\ UNCHANGED <<used_names, systems, tpc, tprefix, returned, gpc,
                   num_planets, system_name, planets, generated>>
    /\ UNCHANGED rvars
    /\ UNCHANGED lvars
    /\ UNCHANGED dvars

\* lines 32-33: the name is inserted and returned.
Add(t) ==
    /\ tpc[t] = "line32"
    /\ used_names' = Insert(used_names, tname[t])
    /\ returned' = DictSet(returned, tname[t],
                           IF tname[t] \in DOMAIN returned
                           THEN returned[tname[t]] + 1 ELSE 1)
    /\ tpc' = [tpc EXCEPT ![t] = "ret"]
    /\ UNCHANGED <<systems, tprefix, tname, gpc, num_planets, system_name,
                   planets, generated>>
    /\ UNCHANGED rvars
    /\ UNCHANGED lvars
    /\ UNCHANGED dvars

\* The caller of a direct call has the name.
NameReturn(t) ==
    /\ tpc[t] = "ret"
    /\ gpc = "idle"
    /\ tpc' = [tpc EXCEPT ![t] = "idle"]
    /\ tprefix' = [tprefix EXCEPT ![t] = None]
    /\ tname' = [tname EXCEPT ![t] = None]
    /\ UNCHANGED <<used_names, systems, returned, gpc, num_planets,
                   system_name, planets, generated>>
    /\ UNCHANGED rvars
    /\ UNCHANGED lvars
    /\ UNCHANGED dvars

\* ---------------------------------------------------- generate_star_system
\* The call of generate_unique_name(prefix) made by the running
\* generate_star_system, which thread 1 runs.
CallName(prefix) ==
    /\ tpc' = [tpc EXCEPT ![1] = "line30"]
    /\ tprefix' = [tprefix EXCEPT ![1] = prefix]
    /\ tname' = [tname EXCEPT ![1] = None]

NameDone ==
    /\ tpc' = [tpc EXCEPT ![1] = "idle"]
    /\ tprefix' = [tprefix EXCEPT ![1] = None]
    /\ tname' = [tname EXCEPT ![1] = None]

\* Lines 41-43 as if the default were drawn when the call is made.
generate_star_system_redrawn ==
    /\ gpc = "idle"
    /\ tpc[1] = "idle"
    /\ gpc' = "line43"
    /\ \E n \in DefaultLow..DefaultHigh :
         /\ num_planets' = n
         /\ defaults_used' = Append(defaults_used, n)
    /\ system_name' = None
    /\ planets' = <<>>
    /\ generated' = NoSystem
    /\ CallName(SYS)
    /\ UNCHANGED <<used_names, systems, returned>>
    /\ UNCHANGED <<default_planets, registered>>
    /\ UNCHANGED rvars
    /\ UNCHANGED lvars

\* lines 41-43, called without a planet count: num_planets is the default
\* that line 41 stored in the function when the class body was run.
generate_star_system_default ==
    /\ gpc = "idle"
    /\ tpc[1] = "idle"
    /\ gpc' = "line43"
    /\ num_planets' = default_planets
    /\ defaults_used' = Append(defaults_used, default_planets)
    /\ system_name' = None
    /\ planets' = <<>>
    /\ generated' = NoSystem
    /\ CallName(SYS)
    /\ UNCHANGED <<used_names, systems, returned>>
    /\ UNCHANGED <<default_planets, registered>>
    /\ UNCHANGED rvars
    /\ UNCHANGED lvars

\* lines 41-43: the call, up to the call of generate_unique_name("SYS").
generate_star_system(n) ==
    /\ gpc = "idle"
    /\ tpc[1] = "idle"
    /\ gpc' = "line43"
    /\ num_planets' = n
    /\ system_name' = None
    /\ planets' = <<>>
    /\ generated' = NoSystem
    /\ CallName(SYS)
    /\ UNCHANGED <<used_names, systems, returned>>
    /\ UNCHANGED rvars
    /\ UNCHANGED lvars
    /\ UNCHANGED dvars

\* lines 43-48: the system has its name; the loop over range(num_planets)
\* starts, or is skipped when the range is empty.
SystemNamed ==
    /\ gpc = "line43"
    /\ tpc[1] = "ret"
    /\ system_name' = tname[1]
    /\ IF 0 < num_planets
       THEN gpc' = "line50" /\ CallName(PLT)
       ELSE gpc' = "line59" /\ NameDone
    /\ UNCHANGED <<used_names, systems, returned, num_planets, planets, generated>>
    /\ UNCHANGED rvars
    /\ UNCHANGED lvars
    /\ UNCHANGED dvars

\* lines 49-56: a planet has its name and its coordinates; the loop goes on
\* or ends.
PlanetMade(c) ==
    /\ gpc = "line50"
    /\ tpc[1] = "ret"
    /\ planets' = Append(planets, [name |-> tname[1], coordinates |-> c])
    /\ IF Len(planets) + 1 < num_planets
       THEN gpc' = "line50" /\ CallName(PLT)
       ELSE gpc' = "line59" /\ NameDone
    /\ UNCHANGED <<used_names, systems, returned, num_planets, system_name,
                   generated>>
    /\ UNCHANGED rvars
    /\ UNCHANGED lvars
    /\ UNCHANGED dvars

\* lines 58-65: the distance map is filled and the system is returned.
SystemReturned ==
    /\ gpc = "line59"
    /\ generated' = [name |-> system_name, planets |-> planets,
                     distances |-> AllPairs(planets, 1, 2, EmptyDict)]
    /\ gpc' = "idle"
    /\ num_planets' = 0
    /\ system_name' = None
    /\ planets' = <<>>
    /\ UNCHANGED <<used_names, systems, tpc, tprefix, tname, returned>>
    /\ UNCHANGED rvars
    /\ UNCHANGED lvars
    /\ UNCHANGED dvars

\* lines 67-69, with the system the caller got from generate_star_system.
add_star_system ==
    /\ gpc = "idle"
    /\ tpc[1] = "idle"
    /\ generated /= NoSystem
    /\ systems' = DictSet(systems, generated.name, generated)
    /\ UNCHANGED <<used_names, tpc, tprefix, tname, returned, gpc,
                   num_planets, system_name, planets, generated>>
    /\ UNCHANGED rvars
    /\ registered' = registered \cup {generated}
    /\ UNCHANGED <<default_planets, defaults_used>>
    /\ UNCHANGED lvars

\* --------------------------------------------------- RouteCalculator state
\* RouteCalculator accepts any StarSystem, so the hand-built systems of the
\* model may lack pairs in the distance map (every system of Complete has
\* them all) and the small ones hold negative numbers too.
Letters == <<67, 65, 68, 66>>

\* Planet i of a hand-built system is named by one letter; the list is not
\* in alphabetical order ("C", "A", "D", "B").
NodeName(i) == <<Letters[i]>>

\* A name that is no planet of the hand-built systems ("X").
Outsider == <<88>>

UPairs(k) == {p \in (1..k) \X (1..k) : p[1] < p[2]}

\* The distance map that stores w[p] under both orders of every pair p that
\* w gives a weight; a pair mapped to Infinity is left out of the map.
DistMap(k, w) ==
    LET present == {p \in UPairs(k) : w[p] /= Infinity}
        keys == {<<NodeName(p[1]), NodeName(p[2])>> : p \in present}
                \cup {<<NodeName(p[2]), NodeName(p[1])>> : p \in present}
        pairOf(key) == CHOOSE p \in present :
                        {NodeName(p[1]), NodeName(p[2])} = {key[1], key[2]}
    IN [key \in keys |-> w[pairOf(key)]]

HandBuilt(k, w) ==
    [name |-> <<83, 89, 83, 45, 65>>,
     planets |-> [i \in 1..k |->
                     [name |-> NodeName(i), coordinates |-> <<0, 0>>]],
     distances |-> DistMap(k, w)]

\* Systems of all the letters with weights 0..MaxWeight, and systems of all
\* the letters but the last with weights -1..MaxWeight.
HandBuiltSystems ==
    LET n == Len(Letters)
    IN  {HandBuilt(n, w) : w \in [UPairs(n) -> (0..MaxWeight) \cup {Infinity}]}
        \cup {HandBuilt(n - 1, w) :
                w \in [UPairs(n - 1) -> ((-1)..MaxWeight) \cup {Infinity}]}

NoResult == [kind |-> "none", path |-> <<>>, distance |-> 0]

RouteIdle ==
    /\ rpc = "idle"
    /\ start_planet = None
    /\ end_planet = None
    /\ distances = EmptyDict
    /\ previous = EmptyDict
    /\ pq = <<>>
    /\ visited = {}
    /\ path = <<>>
    /\ current = None
    /\ result = NoResult
    /\ popped = None
    /\ pushes = 0
    /\ first_pop = EmptyDict
    /\ earlier = NoResult

\* ------------------------------------------------------ find_shortest_path
\* A plain queue in place of the heap: the oldest entry is taken.
MinIndex_First(q) == 1

\* heapq.heappop returns the least entry of the heap.
MinIndex(q) ==
    CHOOSE i \in 1..Len(q) : \A j \in 1..Len(q) : ~EntryLess(q[j], q[i])

HeapRest(q) ==
    LET m == MinIndex(q)
    IN [i \in 1..(Len(q) - 1) |-> IF i < m THEN q[i] ELSE q[i + 1]]

HeapPush(q, e) == Append(q, e)

\* What is kept of the pop of entry top that marks its planet visited: the
\* popped distance and the entries of the two tables at that moment.
FirstPop(top) ==
    [popped |-> top[1],
     distance |-> distances[top[2]],
     previous |-> IF top[2] \in DOMAIN previous THEN previous[top[2]] ELSE None]

\* The weight of the last hop alone, as if line 126 forgot current_distance.
NewDistance_LastHop(current_distance, distance) == distance

\* line 126
NewDistance(current_distance, distance) == current_distance + distance

\* Line 128 with <= in place of <.
Improves_OrEqual(new_distance, old_distance) == new_distance <= old_distance

\* line 128
Improves(new_distance, old_distance) == new_distance < old_distance

\* lines 118-131: the for loop over self.system.planets from index i on;
\* st holds the tables and the heap as the iterations so far left them.
RECURSIVE Relax(_, _, _, _)
Relax(i, current_planet, current_distance, st) ==
    IF i > Len(system.planets) THEN st
    ELSE
        LET planet == system.planets[i].name
            key == <<current_planet, planet>>
        IN  IF planet = current_planet
            THEN Relax(i + 1, current_planet, current_distance, st)
            ELSE IF key \notin DOMAIN system.distances
            THEN Relax(i + 1, current_planet, current_distance, st)
            ELSE
                LET new_distance ==
                        NewDistance(current_distance, system.distances[key])
                IN  IF Improves(new_distance, st.distances[planet])
                    THEN Relax(i + 1, current_planet, current_distance,
                               [distances |-> DictSet(st.distances, planet, new_distance),
                                previous |-> DictSet(st.previous, planet, current_planet),
                                pq |-> HeapPush(st.pq, <<new_distance, planet>>)])
                    ELSE Relax(i + 1, current_planet, current_distance, st)

\* The set-up without line 100: the start planet keeps distance infinity.
find_shortest_path_NoZero(s, e) ==
    /\ rpc = "idle"
    /\ start_planet' = s
    /\ end_planet' = e
    /\ distances' = [n \in NameSet(system) \cup {s} |-> Infinity]
    /\ previous' = [n \in NameSet(system) |-> None]
    /\ pq' = <<<<0, s>>>>
    /\ visited' = {}
    /\ path' = <<>>
    /\ current' = None
    /\ result' = NoResult
    /\ rpc' = "loop"
    /\ UNCHANGED system
    /\ UNCHANGED gvars
    /\ popped' = None
    /\ pushes' = 1
    /\ first_pop' = EmptyDict
    /\ UNCHANGED earlier
    /\ UNCHANGED dvars

\* lines 99-104: the call and the set-up of the tables.
find_shortest_path(s, e) ==
    /\ rpc = "idle"
    /\ start_planet' = s
    /\ end_planet' = e
    /\ distances' = DictSet([n \in NameSet(system) |-> Infinity], s, 0)
    /\ previous' = [n \in NameSet(system) |-> None]
    /\ pq' = <<<<0, s>>>>
    /\ visited' = {}
    /\ path' = <<>>
    /\ current' = None
    /\ result' = NoResult
    /\ rpc' = "loop"
    /\ UNCHANGED system
    /\ UNCHANGED gvars
    /\ popped' = None
    /\ pushes' = 1
    /\ first_pop' = EmptyDict
    /\ UNCHANGED earlier
    /\ UNCHANGED dvars

\* line 106 with an empty heap, then lines 134-135.
LoopExit ==
    /\ rpc = "loop"
    /\ pq = <<>>
    /\ rpc' = "walk"
    /\ path' = <<>>
    /\ current' = end_planet
    /\ UNCHANGED <<system, start_planet, end_planet, distances, previous, pq,
                   visited, result>>
    /\ UNCHANGED gvars
    /\ UNCHANGED lvars
    /\ UNCHANGED dvars

\* Lines 107-131 without the test of lines 109-110: the edges of the popped
\* planet are relaxed although it is visited.
PopStale_Relaxes ==
    /\ rpc = "loop"
    /\ pq /= <<>>
    /\ LET top == pq[MinIndex(pq)]
           st == Relax(1, top[2], top[1],
                       [distances |-> distances, previous |-> previous,
                        pq |-> HeapRest(pq)])
       IN  /\ top[2] \in visited
           /\ distances' = st.distances
           /\ previous' = st.previous
           /\ pq' = st.pq
    /\ popped' = pq[MinIndex(pq)]
    /\ pushes' = pushes + Len(pq') - (Len(pq) - 1)
    /\ UNCHANGED <<system, rpc, start_planet, end_planet, visited, path,
                   current, result, first_pop, earlier>>
    /\ UNCHANGED gvars
    /\ UNCHANGED dvars

\* lines 107-110: the popped planet is visited already.
PopStale ==
    /\ rpc = "loop"
    /\ pq /= <<>>
    /\ pq[MinIndex(pq)][2] \in visited
    /\ pq' = HeapRest(pq)
    /\ UNCHANGED <<system, rpc, start_planet, end_planet, distances, previous,
                   visited, path, current, result>>
    /\ UNCHANGED gvars
    /\ popped' = pq[MinIndex(pq)]
    /\ UNCHANGED <<pushes, first_pop, earlier>>
    /\ UNCHANGED dvars

\* lines 107-115, then lines 134-135: the popped planet is the end planet.
PopEnd ==
    /\ rpc = "loop"
    /\ pq /= <<>>
    /\ pq[MinIndex(pq)][2] \notin visited
    /\ pq[MinIndex(pq)][2] = end_planet
    /\ pq' = HeapRest(pq)
    /\ visited' = visited \cup {end_planet}
    /\ rpc' = "walk"
    /\ path' = <<>>
    /\ current' = end_planet
    /\ UNCHANGED <<system, start_planet, end_planet, distances, previous, result>>
    /\ UNCHANGED gvars
    /\ popped' = pq[MinIndex(pq)]
    /\ first_pop' = DictSet(first_pop, end_planet, FirstPop(pq[MinIndex(pq)]))
    /\ UNCHANGED <<pushes, earlier>>
    /\ UNCHANGED dvars

\* lines 107-131: the popped planet is marked and its edges are relaxed.
PopRelax ==
    /\ rpc = "loop"
    /\ pq /= <<>>
    /\ LET top == pq[MinIndex(pq)]
           st == Relax(1, top[2], top[1],
                       [distances |-> distances, previous |-> previous,
                        pq |-> HeapRest(pq)])
       IN  /\ top[2] \notin visited
           /\ top[2] /= end_planet
           /\ visited' = visited \cup {top[2]}
           /\ distances' = st.distances
           /\ previous' = st.previous
           /\ pq' = st.pq
    /\ UNCHANGED <<system, rpc, start_planet, end_planet, path, current, result>>
    /\ UNCHANGED gvars
    /\ popped' = pq[MinIndex(pq)]
    /\ first_pop' = DictSet(first_pop, pq[MinIndex(pq)][2], FirstPop(pq[MinIndex(pq)]))
    /\ pushes' = pushes + Len(pq') - (Len(pq) - 1)
    /\ UNCHANGED earlier
    /\ UNCHANGED dvars

\* lines 136-138: one iteration of the backward walk; previous[current]
\* raises KeyError for a name that is no key of the table.
WalkStep ==
    /\ rpc = "walk"
    /\ current /= None
    /\ Len(path) < MaxWalk
    /\ path' = Append(path, current)
    /\ IF current \in DOMAIN previous
       THEN /\ current' = previous[current]
            /\ UNCHANGED <<rpc, result>>
       ELSE /\ rpc' = "raised"
            /\ result' = [kind |-> "KeyError", path |-> <<>>, distance |-> 0]
            /\ UNCHANGED current
    /\ UNCHANGED <<system, start_planet, end_planet, distances, previous, pq,
                   visited>>
    /\ UNCHANGED gvars
    /\ UNCHANGED lvars
    /\ UNCHANGED dvars

\* Line 140 as if it also stored the result in the system's own map.
Return_Caches ==
    /\ rpc = "walk"
    /\ current = None
    /\ IF end_planet \in DOMAIN distances
       THEN result' = [kind |-> "returned", path |-> Reverse(path),
                       distance |-> distances[end_planet]]
       ELSE result' = [kind |-> "KeyError", path |-> <<>>, distance |-> 0]
    /\ system' = [system EXCEPT !.distances =
                      DictSet(@, <<start_planet, end_planet>>, Len(path))]
    /\ rpc' = IF end_planet \in DOMAIN distances THEN "returned" ELSE "raised"
    /\ UNCHANGED <<start_planet, end_planet, distances, previous, pq,
                   visited, path, current>>
    /\ UNCHANGED gvars
    /\ UNCHANGED lvars
    /\ UNCHANGED dvars

\* line 140
Return ==
    /\ rpc = "walk"
    /\ current = None
    /\ IF end_planet \in DOMAIN distances
       THEN result' = [kind |-> "returned", path |-> Reverse(path),
                       distance |-> distances[end_planet]]
       ELSE result' = [kind |-> "KeyError", path |-> <<>>, distance |-> 0]
    /\ rpc' = IF end_planet \in DOMAIN distances THEN "returned" ELSE "raised"
    /\ UNCHANGED <<system, start_planet, end_planet, distances, previous, pq,
                   visited, path, current>>
    /\ UNCHANGED gvars
    /\ UNCHANGED lvars
    /\ UNCHANGED dvars

\* After line 140 or an exception the frame and its locals are gone, and the
\* caller may call again; kept is what the caller has of its calls so far.
EndOfCall(kept) ==
    /\ rpc \in {"returned", "raised"}
    /\ rpc' = "idle"
    /\ start_planet' = None
    /\ end_planet' = None
    /\ distances' = EmptyDict
    /\ previous' = EmptyDict
    /\ pq' = <<>>
    /\ visited' = {}
    /\ path' = <<>>
    /\ current' = None
    /\ result' = NoResult
    /\ UNCHANGED system
    /\ UNCHANGED gvars
    /\ popped' = None
    /\ pushes' = 0
    /\ first_pop' = EmptyDict
    /\ earlier' = kept
    /\ UNCHANGED dvars

\* The caller drops the result (the result of the call of line 161 is used
\* once, in the prints of lines 163-165).
CallEnds == EndOfCall(earlier)

\* The caller keeps the arguments and the outcome of the call that ends.
CallKept ==
    EndOfCall([start |-> start_planet, end |-> end_planet, result |-> result])

\* The caller repeats the call it kept, on the same calculator.
CallAgain ==
    /\ earlier /= NoResult
    /\ find_shortest_path(earlier.start, earlier.end)

RouteInit ==
    /\ system \in HandBuiltSystems
    /\ RouteIdle
    /\ GenIdle
    /\ default_planets = DefaultLow

RouteNext ==
    \/ \E s, e \in NameSet(system) \cup {Outsider} : find_shortest_path(s, e)
    \/ LoopExit
    \/ PopStale
    \/ PopEnd
    \/ PopRelax
    \/ WalkStep
    \/ Return
    \/ CallEnds

SpecRoute == RouteInit /\ [][RouteNext]_vars

\* A caller that makes every call twice in a row and keeps the first outcome.
RouteAgainNext ==
    \/ /\ earlier = NoResult
       /\ \E s, e \in NameSet(system) \cup {Outsider} : find_shortest_path(s, e)
    \/ CallAgain
    \/ LoopExit
    \/ PopStale
    \/ PopEnd
    \/ PopRelax
    \/ WalkStep
    \/ Return
    \/ CallKept

SpecRouteAgain == RouteInit /\ [][RouteAgainNext]_vars

\* ------------------------------------------------- the generator's programs
GenInit ==
    /\ GenIdle
    /\ default_planets = DefaultLow
    /\ system = NoSystem
    /\ RouteIdle

\* One thread: direct calls of generate_unique_name, generate_star_system
\* and add_star_system, in any order.
GenNext ==
    \/ \E prefix \in Prefixes : generate_unique_name(1, prefix)
    \/ DrawFree(1)
    \/ DrawTaken(1)
    \/ Add(1)
    \/ NameReturn(1)
    \/ \E n \in (-1)..MaxPlanets : generate_star_system(n)
    \/ SystemNamed
    \/ \E c \in Coordinates : PlanetMade(c)
    \/ SystemReturned
    \/ add_star_system

SpecGen == GenInit /\ [][GenNext]_vars

\* The class body has been run: the default of num_planets is one of the
\* values of random.randint(3, 8).
DefaultInit ==
    /\ GenIdle
    /\ default_planets \in DefaultLow..DefaultHigh
    /\ system = NoSystem
    /\ RouteIdle

\* One thread that calls generate_star_system without a planet count and
\* registers what it gets.
DefaultNext ==
    \/ generate_star_system_default
    \/ DrawFree(1)
    \/ DrawTaken(1)
    \/ Add(1)
    \/ SystemNamed
    \/ \E c \in Coordinates : PlanetMade(c)
    \/ SystemReturned
    \/ add_star_system

SpecDefault == DefaultInit /\ [][DefaultNext]_vars

\* lines 90-92: a RouteCalculator is made for the system the caller got from
\* generate_star_system.
RouteCalculator ==
    /\ gpc = "idle"
    /\ tpc[1] = "idle"
    /\ rpc = "idle"
    /\ generated /= NoSystem
    /\ system' = generated
    /\ UNCHANGED <<rpc, start_planet, end_planet, distances, previous, pq,
                   visited, path, current, result>>
    /\ UNCHANGED gvars
    /\ UNCHANGED lvars
    /\ UNCHANGED dvars

\* The planet count of the calls of the program below is at most MaxRouted.
MaxRouted == 3

\* Three places on one line: the rounding of line 39 makes the two short
\* sides (1.41 each) sum to less than the long one (2.83).
Collinear == Coordinates \cup {<<2, 2>>}

\* One thread that generates systems, registers them, makes calculators for
\* them and asks for routes, one operation after the other as in
\* example_usage.
GalaxyNext ==
    \/ /\ rpc = "idle"
       /\ \/ \E n \in 1..MaxRouted : generate_star_system(n)
          \/ DrawFree(1)
          \/ DrawTaken(1)
          \/ Add(1)
          \/ SystemNamed
          \/ \E c \in Collinear : PlanetMade(c)
          \/ SystemReturned
          \/ add_star_system
          \/ RouteCalculator
    \/ /\ gpc = "idle"
       /\ tpc[1] = "idle"
       /\ system /= NoSystem
       /\ \E s, e \in NameSet(system) \cup {Outsider} : find_shortest_path(s, e)
    \/ LoopExit
    \/ PopStale
    \/ PopEnd
    \/ PopRelax
    \/ WalkStep
    \/ Return
    \/ CallEnds

SpecGalaxy == GenInit /\ [][GalaxyNext]_vars

\* Two threads call generate_unique_name on one generator; a thread may be
\* switched out between any two lines.
ConcNext ==
    \E t \in Threads :
        \/ \E prefix \in Prefixes : generate_unique_name(t, prefix)
        \/ DrawFree(t)
        \/ DrawTaken(t)
        \/ Add(t)
        \/ NameReturn(t)

SpecConc == GenInit /\ [][ConcNext]_vars

\* One thread calls generate_unique_name again and again. A running call
\* goes on running, and a draw among names of which some are free does not
\* miss the free ones for ever.
NamesNext ==
    \/ \E prefix \in Prefixes : generate_unique_name(1, prefix)
    \/ DrawFree(1)
    \/ DrawTaken(1)
    \/ Add(1)
    \/ NameReturn(1)

SpecNamesFair ==
    /\ GenInit
    /\ [][NamesNext]_vars
    /\ WF_vars(DrawFree(1) \/ DrawTaken(1) \/ Add(1) \/ NameReturn(1))
    /\ SF_vars(DrawFree(1))

\* ------------------------------------------------ properties of the routes
IsPlanet(n) == n \in NameSet(system)

NonNegative(sys) == \A key \in DOMAIN sys.distances : sys.distances[key] >= 0

\* The weight stored under (a, b), Infinity when the map has no such key.
Weight(sys, a, b) ==
    IF <<a, b>> \in DOMAIN sys.distances THEN sys.distances[<<a, b>>] ELSE Infinity

Plus(x, y) == IF x >= Infinity \/ y >= Infinity THEN Infinity ELSE x + y

Least(S) == CHOOSE x \in S : \A y \in S : x <= y

\* The least sum of weights over the sequences of planets that lead from s
\* to n in at most k hops along pairs of the map; Infinity when none does.
RECURSIVE MinSum(_, _, _, _)
MinSum(sys, s, n, k) ==
    IF k = 0 THEN (IF n = s THEN 0 ELSE Infinity)
    ELSE Least({MinSum(sys, s, n, k - 1)}
               \cup {Plus(MinSum(sys, s, m, k - 1), Weight(sys, m, n)) :
                        m \in NameSet(sys) \ {n}})

\* The sum of the weights of the consecutive pairs of p, each looked up in
\* the distance map; Infinity when a pair is no key of the map.
RECURSIVE PathSum(_, _)
PathSum(sys, p) ==
    IF Len(p) <= 1 THEN 0
    ELSE Plus(Weight(sys, p[1], p[2]), PathSum(sys, Tail(p)))

\* C1: with non-negative weights and start and end in the system, the
\* returned distance is the least sum of weights over the sequences of
\* planets from start to end (Infinity when there is none), and when there
\* is one the returned path is such a sequence, of that sum.
C1_ShortestDistance ==
    (rpc = "returned" /\ NonNegative(system)
        /\ IsPlanet(start_planet) /\ IsPlanet(end_planet))
    => LET least == MinSum(system, start_planet, end_planet, Len(system.planets))
       IN  /\ result.distance = least
           /\ least < Infinity =>
                /\ Head(result.path) = start_planet
                /\ result.path[Len(result.path)] = end_planet
                /\ PathSum(system, result.path) = least

\* A three-hop route is returned although the direct pair is in the map.
C1_Witness ==
    /\ rpc = "returned"
    /\ NonNegative(system)
    /\ Len(result.path) = 4
    /\ <<start_planet, end_planet>> \in DOMAIN system.distances
    /\ result.distance < system.distances[<<start_planet, end_planet>>]

\* C3 as stated: the returned distance is the sum of the weights of the
\* consecutive pairs of the returned path, for every system with
\* non-negative weights and every two planets of it.
C3_DistanceIsPathSum ==
    (rpc = "returned" /\ NonNegative(system)
        /\ IsPlanet(start_planet) /\ IsPlanet(end_planet))
    => result.distance = PathSum(system, result.path)

\* C4: find_shortest_path(A, A) returns ([A], 0) for every planet A,
\* whatever the map holds.
C4_TrivialPath ==
    (rpc = "returned" /\ IsPlanet(start_planet) /\ end_planet = start_planet)
    => result.path = <<start_planet>> /\ result.distance = 0

\* A call with start = end returned on a system that has a negative weight.
C4_Witness ==
    /\ rpc = "returned"
    /\ IsPlanet(start_planet)
    /\ end_planet = start_planet
    /\ ~NonNegative(system)

\* C6 as stated: a call whose start or end is no planet of the system
\* raises before the tables, the heap or the visited set are touched, and
\* returns nothing.
C6_RejectsUnknownNames ==
    (rpc /= "idle" /\ ~(IsPlanet(start_planet) /\ IsPlanet(end_planet)))
    => /\ rpc = "raised"
       /\ distances = EmptyDict
       /\ previous = EmptyDict
       /\ pq = <<>>
       /\ visited = {}

\* C8 as stated: a call between planets of the system never returns a path
\* that does not begin with the start planet.
C8_NoPathIsSignalled ==
    (rpc = "returned" /\ NonNegative(system)
        /\ IsPlanet(start_planet) /\ IsPlanet(end_planet))
    => Head(result.path) = start_planet

\* --------------------------------------------- properties of the generator
\* The system name and the planet names of a system.
NamesOf(sys) == {sys.name} \cup NameSet(sys)

\* The systems the generator has returned and the caller still has: the
\* registered ones and the last one returned.
KnownSystems == {systems[k] : k \in DOMAIN systems} \cup ({generated} \ {NoSystem})

\* C2: in a sequence of calls of generate_unique_name on one generator,
\* those made by generate_star_system included, no name is returned twice;
\* so the names of a system are pairwise distinct and two systems share
\* no name.
C2_UniqueNames ==
    /\ \A name \in DOMAIN returned : returned[name] = 1
    /\ \A a \in KnownSystems : Cardinality(NamesOf(a)) = 1 + Len(a.planets)
    /\ \A a, b \in KnownSystems : a /= b => NamesOf(a) \cap NamesOf(b) = {}

\* Two systems with planets are registered, and a name was returned to a
\* direct call as well.
C2_Witness ==
    /\ Cardinality(DOMAIN systems) = 2
    /\ \A k \in DOMAIN systems : Len(systems[k].planets) >= 1
    /\ \E name \in DOMAIN returned :
         \A a \in KnownSystems : name \notin NamesOf(a)

\* C5: a system returned by generate_star_system with k planets has a
\* distance map of exactly k*(k-1) entries, one for each ordered pair of
\* distinct planets, and the entries of (a, b) and (b, a) are equal.
C5_CompleteSymmetricMap ==
    generated /= NoSystem =>
        LET k == Len(generated.planets)
            d == generated.distances
            names == NameSet(generated)
        IN  /\ Cardinality(DOMAIN d) = k * (k - 1)
            /\ DOMAIN d = {key \in names \X names : key[1] /= key[2]}
            /\ \A key \in DOMAIN d : d[key] = d[<<key[2], key[1]>>]

\* A system of three planets is returned, two of them at different places.
C5_Witness ==
    /\ generated /= NoSystem
    /\ Len(generated.planets) = 3
    /\ \E key \in DOMAIN generated.distances : generated.distances[key] = 141

\* C7 as stated: generate_star_system with a planet count of zero or less
\* does not run its body (no name is allocated) and returns no system.
C7_RejectsNonPositive ==
    /\ gpc /= "idle" => num_planets > 0
    /\ generated /= NoSystem => Len(generated.planets) > 0

\* C9 as stated: every call of generate_unique_name ends.
C9_NameCallEnds == (tpc[1] = "line30") ~> (tpc[1] = "ret")

\* C10 as stated: no interleaving of two concurrent calls of
\* generate_unique_name returns one name to both callers.
C10_NoSharedName == \A name \in DOMAIN returned : returned[name] < 2

\* ------------------------------------------------- the order of the pops
\* a <= b for strings, by the first place where the two differ.
LexLeq(a, b) ==
    \/ a = b
    \/ \E k \in 1..(Len(b)) :
         /\ \A i \in 1..(k - 1) : i <= Len(a) /\ a[i] = b[i]
         /\ k > Len(a) \/ a[k] < b[k]

\* The entries of a heap.
Entries(q) == {q[i] : i \in 1..Len(q)}

\* A step of the main loop that pops an entry.
PopStep == rpc = "loop" /\ popped' /= popped

C12_SystemsAreNotChanged ==
    [][ /\ \A k \in DOMAIN systems :
             k \in DOMAIN systems' /\ systems'[k] = systems[k]
        /\ system' /= system =>
             /\ rpc = "idle" /\ rpc' = "idle"
             /\ system' = generated
             /\ generated' = generated
        /\ generated' /= generated =>
             \/ gpc = "idle" /\ gpc' = "line43" /\ generated' = NoSystem
             \/ gpc = "line59" /\ gpc' = "idle" /\ generated = NoSystem
        /\ systems' /= systems =>
             /\ systems' = DictSet(systems, generated.name, generated)
             /\ UNCHANGED <<used_names, tpc, tprefix, tname, returned, gpc,
                            num_planets, system_name, planets, generated>>
             /\ UNCHANGED rvars
      ]_vars

\* A route of two planets was returned on a registered system while the
\* caller already holds a system generated after it, registered as well.
C12_Witness ==
    /\ rpc = "returned"
    /\ Len(result.path) = 2
    /\ system.name \in DOMAIN systems
    /\ systems[system.name] = system
    /\ generated /= NoSystem
    /\ generated /= system
    /\ generated.name \in DOMAIN systems

\* C13: every system that was given to add_star_system is in the systems
\* mapping under its own name, whatever was generated and registered after
\* it; and giving the caller's system to add_star_system again would store
\* what the mapping already holds.
C13_RegisteredStay ==
    /\ \A s \in registered : s.name \in DOMAIN systems /\ systems[s.name] = s
    /\ DOMAIN systems = {s.name : s \in registered}
    /\ generated \in registered =>
           DictSet(systems, generated.name, generated) = systems

\* Three systems were registered one after the other, the caller still
\* holds the last of them, and one of them has two planets.
C13_Witness ==
    /\ Cardinality(registered) = 3
    /\ generated \in registered
    /\ \E s \in registered : Len(s.planets) = 2

\* ------------------------------------------------- the tables during a call
\* A call is under way or has just ended.
InCall == rpc \in {"loop", "walk", "returned", "raised"}

\* previous[n], none for a name that is no key of the table.
Pred(n) == IF n \in DOMAIN previous THEN previous[n] ELSE None

\* The table of the least sums of weights over the routes of at most k hops
\* from s, for s and every planet of sys, built hop after hop.
RECURSIVE LeastSums(_, _, _)
LeastSums(sys, s, k) ==
    IF k = 0 THEN [n \in NameSet(sys) \cup {s} |-> IF n = s THEN 0 ELSE Infinity]
    ELSE LET shorter == LeastSums(sys, s, k - 1)
         IN  [n \in NameSet(sys) \cup {s} |->
                 Least({shorter[n]}
                       \cup {Plus(shorter[m], Weight(sys, m, n)) :
                                m \in (NameSet(sys) \cup {s}) \ {n}})]

\* The last pop marked its planet visited and nothing was done since.
JustVisited ==
    /\ popped /= None
    /\ popped[2] \in DOMAIN first_pop
    /\ first_pop[popped[2]].popped = popped[1]
    /\ rpc = "loop" \/ (rpc = "walk" /\ path = <<>>)

\* C14: with non-negative weights, the distance popped with a planet that
\* is marked visited is the least sum of weights over the routes from start
\* to it; and for every visited planet the distance that was popped when it
\* was marked was its entry of the distance table at that moment, and its
\* entries of the distance table and of the predecessor table are still
\* what they were at that moment.
C14_VisitedAreFinal ==
    (InCall /\ NonNegative(system)) =>
        /\ DOMAIN first_pop = visited
        /\ \A n \in visited :
             /\ first_pop[n].popped = first_pop[n].distance
             /\ distances[n] = first_pop[n].distance
             /\ Pred(n) = first_pop[n].previous
        /\ JustVisited =>
             popped[1] = LeastSums(system, start_planet,
                                   Len(system.planets) - 1)[popped[2]]

\* The planet visited last was reached over another planet at a positive
\* distance, while the heap still holds an older entry of a visited planet.
C14_Witness ==
    /\ rpc = "loop"
    /\ NonNegative(system)
    /\ popped /= None
    /\ popped[2] \notin {e[2] : e \in Entries(pq)}
    /\ popped[1] > 0
    /\ Pred(popped[2]) \notin {None, start_planet}
    /\ \E e \in Entries(pq) : e[2] \in visited

\* C15: a pop of an entry whose planet is visited already takes that entry
\* out of the heap and changes nothing else; and a step of the call that
\* changes a table or adds to the heap is the pop that marks a planet
\* visited, which no later step of the call unmarks, so the edges of a
\* planet are relaxed once at most in a call.
C15_StalePopsDoNothing ==
    [][ /\ (PopStep /\ popped'[2] \in visited) =>
              /\ Entries(pq') = Entries(pq) \ {popped'}
              /\ Len(pq') = Len(pq) - 1
              /\ UNCHANGED <<distances, previous, visited, rpc>>
        /\ (rpc = "loop" /\ rpc' /= "idle") =>
              /\ visited \subseteq visited'
              /\ (distances' /= distances \/ previous' /= previous
                     \/ Entries(pq') \ Entries(pq) /= {}) =>
                    /\ PopStep
                    /\ popped'[2] \notin visited
                    /\ visited' = visited \cup {popped'[2]}
      ]_vars

\* An entry of a visited planet has just been popped while entries of
\* planets not yet visited wait in the heap.
C15_Witness ==
    /\ rpc = "loop"
    /\ popped /= None
    /\ popped[2] \in visited
    /\ first_pop[popped[2]].popped < popped[1]
    /\ \E e \in Entries(pq) : e[2] \notin visited

\* Every ordered pair of distinct planets is a key of the distance map.
Complete(sys) ==
    \A a, b \in NameSet(sys) : a /= b => <<a, b>> \in DOMAIN sys.distances

\* C16: on a complete system with non-negative weights, a call between two
\* planets of the system returns a path that begins with start, ends with
\* end, holds no planet twice and whose consecutive pairs are keys of the
\* distance map.
C16_PathIsARoute ==
    (rpc = "returned" /\ Complete(system) /\ NonNegative(system)
        /\ IsPlanet(start_planet) /\ IsPlanet(end_planet))
    => LET p == result.path
       IN  /\ Len(p) >= 1
           /\ p[1] = start_planet
           /\ p[Len(p)] = end_planet
           /\ \A i, j \in 1..Len(p) : i /= j => p[i] /= p[j]
           /\ \A i \in 1..(Len(p) - 1) :
                <<p[i], p[i + 1]>> \in DOMAIN system.distances

\* On a complete system the returned path goes over two other planets
\* because the direct pair weighs more.
C16_Witness ==
    /\ rpc = "returned"
    /\ Complete(system)
    /\ NonNegative(system)
    /\ Len(result.path) = 4
    /\ result.distance < Weight(system, start_planet, end_planet)

RECURSIVE Ancestor(_, _)
Ancestor(n, k) ==
    IF k = 0 \/ n = None THEN n ELSE Ancestor(Pred(n), k - 1)

\* What is left of the main loop at most: two for every entry that may
\* still be pushed and one for every entry that waits in the heap.
LoopMeasure ==
    2 * (1 + Len(system.planets) * (Len(system.planets) - 1) - pushes) + Len(pq)

\* The call is one between two planets of a system with non-negative weights.
Bounded ==
    InCall /\ NonNegative(system) /\ IsPlanet(start_planet) /\ IsPlanet(end_planet)

\* C18: in a call between two planets of a system of V planets with
\* non-negative weights, at most 1 + V*(V-1) entries are pushed; every
\* iteration of the main loop lowers a measure that is never negative; the
\* predecessor links lead from every planet to none within V links, so they
\* form no cycle; every iteration of the backward walk adds a planet to a
\* path of at most V planets; and the walk is never left without a next
\* step before it returns.
C18_CallTerminates ==
    /\ [](Bounded =>
            LET V == Len(system.planets)
            IN  /\ pushes <= 1 + V * (V - 1)
                /\ LoopMeasure >= 0
                /\ \A n \in NameSet(system) : Ancestor(n, V) = None
                /\ rpc = "walk" =>
                      /\ Len(path) <= V
                      /\ current /= None => Len(path) < V
                      /\ ENABLED (WalkStep \/ Return))
    /\ [][Bounded =>
            /\ (rpc = "loop" /\ rpc' = "loop") => LoopMeasure' < LoopMeasure
            /\ (rpc = "walk" /\ rpc' = "walk") => Len(path') = Len(path) + 1
         ]_vars

\* A call on a system with a pair of weight 0 has returned a path of three
\* planets after pushing more entries than there are planets.
C18_Witness ==
    /\ rpc = "returned"
    /\ NonNegative(system)
    /\ \E key \in DOMAIN system.distances : system.distances[key] = 0
    /\ Len(result.path) = 3
    /\ pushes > Len(system.planets)

\* ------------------------------------------------- the predecessor links
\* C19: during a call from a planet of a system with non-negative weights,
\* start has distance 0 and no predecessor; every other planet that has a
\* predecessor p has a visited p and the distance of p plus the weight of
\* the pair (p, n); and a planet has a distance below infinity exactly when
\* it is start or has a predecessor.
C19_LinksCarryDistances ==
    (InCall /\ NonNegative(system) /\ IsPlanet(start_planet)) =>
        /\ distances[start_planet] = 0
        /\ previous[start_planet] = None
        /\ \A n \in NameSet(system) \ {start_planet} :
             previous[n] /= None =>
                /\ previous[n] \in visited
                /\ <<previous[n], n>> \in DOMAIN system.distances
                /\ distances[n]
                     = distances[previous[n]] + system.distances[<<previous[n], n>>]
        /\ \A n \in NameSet(system) :
             distances[n] < Infinity <=> (n = start_planet \/ previous[n] /= None)

\* In the main loop a planet has a predecessor other than start, another
\* planet has none and an infinite distance, and a pair of start weighs 0.
C19_Witness ==
    /\ rpc = "loop"
    /\ NonNegative(system)
    /\ IsPlanet(start_planet)
    /\ \E n \in NameSet(system) : previous[n] \notin {None, start_planet}
    /\ \E n \in NameSet(system) : previous[n] = None /\ distances[n] = Infinity
    /\ \E n \in NameSet(system) : Weight(system, start_planet, n) = 0

====
